---- MODULE Spec2Model ----
(***************************************************************************)
(* The vector-shape editor: the useVectorPlotter hook                      *)
(* (src/src/use-vector-plotter.ts, lines 1-317) and the App component      *)
(* that drives it (src/src/canvas.tsx, both variants of the component:     *)
(* lines 1-414 and lines 416-899).                                         *)
(*                                                                         *)
(* A JavaScript number is modelled in fixed point: the finite number n     *)
(* stands for n / Unit, and every operation rounds to the nearest          *)
(* representable value, as floating point does at its own resolution.      *)
(* NaN and the infinities are kept apart from the finite numbers.          *)
(***************************************************************************)
EXTENDS Integers, Sequences, FiniteSets, TLC

VARIABLES
    ui,             \* which App component runs: "V1", "V2", or "hook" (the hook alone)
    context,        \* whether canvas.getContext("2d") gave a rendering context
    shapes,         \* useState<Shapes>: sequence of shapes, each a sequence of points
    selectedShape,  \* useState<number | null>: null or <<index>>
    zoom,           \* App's zoom state, the hook's scale argument
    mode,           \* App's drawing mode
    nTransforms,    \* number of coordinate-changing calls since the last clear
    trail,          \* the transform calls a caller of the hook has made, each with the shapes it saw
    exported,       \* what a caller of the hook last got from serializeToSVG, and for which shapes and size
    listening,      \* whether the canvas has the pointer-move listener of a freehand drag
    debounceRef,    \* debounceRef.current: null or <<the closure of the debounced callback>>
    timeout,        \* the timer of the debounced callback: null or <<its closure and event>>
    call,           \* the last handler or hook function that ran, with its arguments
    prev,           \* shapes and selectedShape as they were before that call
    ret             \* what that call returned, and whether it threw

vars == <<ui, context, shapes, selectedShape, zoom, mode, nTransforms, trail, exported, listening, debounceRef, timeout, call, prev, ret>>

(***************************************************************************)
(* Bounds of the model.                                                    *)
(***************************************************************************)
MaxShapes == 2
MaxPoints == 2
MaxTransforms == 1
MaxZoomSteps == 1
MaxZoomOut == 11
MaxBelowZero == 2
MaxDrawn == 2
MaxCalls == 2

(***************************************************************************)
(* JavaScript numbers.                                                     *)
(***************************************************************************)
Unit == 100

Fin(n) == [k |-> "fin", v |-> n]
NaN == [k |-> "NaN", v |-> 0]
Infinity(sign) == [k |-> "Infinity", v |-> sign]
undefined == [k |-> "undefined", v |-> 0]
null == << >>

IsFinite(a) == a.k = "fin"

AbsInt(n) == IF n < 0 THEN -n ELSE n
SignInt(n) == IF n < 0 THEN -1 ELSE 1

\* a / b rounded to the nearest integer, halves away from zero (b # 0)
RoundDiv(a, b) ==
    SignInt(a) * SignInt(b) * ((2 * AbsInt(a) + AbsInt(b)) \div (2 * AbsInt(b)))

NumNeg(a) ==
    CASE a.k = "fin" -> Fin(-a.v)
      [] a.k = "Infinity" -> Infinity(-a.v)
      [] OTHER -> NaN

NumAdd(a, b) ==
    CASE a.k = "fin" /\ b.k = "fin" -> Fin(a.v + b.v)
      [] a.k = "Infinity" /\ b.k = "fin" -> a
      [] a.k = "fin" /\ b.k = "Infinity" -> b
      [] a.k = "Infinity" /\ b.k = "Infinity" -> IF a.v = b.v THEN a ELSE NaN
      [] OTHER -> NaN

NumSub(a, b) == NumAdd(a, NumNeg(b))

NumMul(a, b) ==
    CASE a.k = "fin" /\ b.k = "fin" -> Fin(RoundDiv(a.v * b.v, Unit))
      [] a.k = "Infinity" /\ b.k = "fin" ->
            IF b.v = 0 THEN NaN ELSE Infinity(a.v * SignInt(b.v))
      [] a.k = "fin" /\ b.k = "Infinity" ->
            IF a.v = 0 THEN NaN ELSE Infinity(b.v * SignInt(a.v))
      [] a.k = "Infinity" /\ b.k = "Infinity" -> Infinity(a.v * b.v)
      [] OTHER -> NaN

NumDiv(a, b) ==
    CASE a.k = "fin" /\ b.k = "fin" ->
            IF b.v # 0 THEN Fin(RoundDiv(a.v * Unit, b.v))
            ELSE IF a.v = 0 THEN NaN ELSE Infinity(SignInt(a.v))
      [] a.k = "Infinity" /\ b.k = "fin" -> Infinity(a.v * SignInt(b.v))
      [] a.k = "fin" /\ b.k = "Infinity" -> Fin(0)
      [] OTHER -> NaN

NumAbs(a) ==
    CASE a.k = "fin" -> Fin(AbsInt(a.v))
      [] a.k = "Infinity" -> Infinity(1)
      [] OTHER -> NaN

\* a < b; every comparison with NaN is false
NumLess(a, b) ==
    CASE a.k = "fin" /\ b.k = "fin" -> a.v < b.v
      [] a.k = "Infinity" /\ b.k = "fin" -> a.v < 0
      [] a.k = "fin" /\ b.k = "Infinity" -> b.v > 0
      [] a.k = "Infinity" /\ b.k = "Infinity" -> a.v < b.v
      [] OTHER -> FALSE

\* Math.max of two numbers
MathMax(a, b) ==
    IF a.k \notin {"fin", "Infinity"} \/ b.k \notin {"fin", "Infinity"} THEN NaN
    ELSE IF NumLess(a, b) THEN b ELSE a

\* a whole number n as a JavaScript number
Whole(n) == Fin(n * Unit)

(***************************************************************************)
(* Vector operations.                                                      *)
(***************************************************************************)
createVector(x, y) == [x |-> x, y |-> y]

addVectors(v1, v2) == [x |-> NumAdd(v1.x, v2.x), y |-> NumAdd(v1.y, v2.y)]

subtractVectors(v1, v2) == [x |-> NumSub(v1.x, v2.x), y |-> NumSub(v1.y, v2.y)]

scaleVector(v, scalar) == [x |-> NumMul(v.x, scalar), y |-> NumMul(v.y, scalar)]

(***************************************************************************)
(* The hook's state and its operations.  An operation is given the shapes  *)
(* array its closure holds and yields the array it passes to setShapes,    *)
(* the value it returns, and whether it threw a TypeError (in which case   *)
(* setShapes was not reached).                                             *)
(***************************************************************************)
CanvasWidth == 400
CanvasHeight == 400
DEFAULT_ZOOM == 50
ZOOM_STEP == 5

Done(s, value) == [shapes |-> s, value |-> value, threw |-> FALSE]
TypeError(s) == [shapes |-> s, value |-> undefined, threw |-> TRUE]

\* s[i] is defined (JavaScript indices count from 0)
HasIndex(s, i) == i \in 0 .. (Len(s) - 1)
At(s, i) == s[i + 1]

InitialShapes == << << >> >>
InitialSelectedShape == <<0>>

selectShape(index) == <<index>>

deselectShape == null

RECURSIVE reduceAddVectors(_, _)
reduceAddVectors(shape, n) ==
    IF n = 0 THEN createVector(Fin(0), Fin(0))
    ELSE addVectors(reduceAddVectors(shape, n - 1), shape[n].vector)

calculateCenter(shape) ==
    scaleVector(reduceAddVectors(shape, Len(shape)),
                NumDiv(Whole(1), Whole(Len(shape))))

\* mutant of addShape: returns the new length
addShapeReturnsLength(s) ==
    LET newShapes == Append(s, << >>)
    IN  Done(newShapes, Len(newShapes))

addShape(s) ==
    LET newShapes == Append(s, << >>)
    IN  Done(newShapes, Len(newShapes) - 1)

RECURSIVE filterOtherThan(_, _, _)
filterOtherThan(s, index, i) ==
    IF i >= Len(s) THEN << >>
    ELSE (IF i # index THEN <<At(s, i)>> ELSE << >>) \o filterOtherThan(s, index, i + 1)

\* mutant of removeShape: filters out the shape after index
removeShapeOffByOne(s, index) == Done(filterOtherThan(s, index + 1, 0), undefined)

removeShape(s, index) == Done(filterOtherThan(s, index, 0), undefined)

\* mutant of scaleShape: the center is not added back
scaleShapeCenterNotAddedBack(s, shapeIndex, scalar) ==
    IF ~HasIndex(s, shapeIndex) THEN TypeError(s)
    ELSE LET old == At(s, shapeIndex)
             center == calculateCenter(old)
             new == [j \in 1 .. Len(old) |->
                        [vector |-> scaleVector(subtractVectors(old[j].vector, center),
                                                scalar),
                         color |-> old[j].color,
                         opacity |-> undefined]]
         IN  Done([s EXCEPT ![shapeIndex + 1] = new], undefined)

\* mutant of scaleShape: the center of a shape without points is stored as
\* its one point
scaleShapeStoresCenter(s, shapeIndex, scalar) ==
    IF ~HasIndex(s, shapeIndex) THEN TypeError(s)
    ELSE LET old == At(s, shapeIndex)
             center == calculateCenter(old)
             new == IF Len(old) = 0
                    THEN <<[vector |-> center, color |-> "undefined", opacity |-> undefined]>>
                    ELSE [j \in 1 .. Len(old) |->
                             [vector |-> addVectors(
                                             scaleVector(subtractVectors(old[j].vector, center),
                                                         scalar),
                                             center),
                              color |-> old[j].color,
                              opacity |-> undefined]]
         IN  Done([s EXCEPT ![shapeIndex + 1] = new], undefined)

scaleShape(s, shapeIndex, scalar) ==
    IF ~HasIndex(s, shapeIndex) THEN TypeError(s)
    ELSE LET old == At(s, shapeIndex)
             center == calculateCenter(old)
             new == [j \in 1 .. Len(old) |->
                        [vector |-> addVectors(
                                        scaleVector(subtractVectors(old[j].vector, center),
                                                    scalar),
                                        center),
                         color |-> old[j].color,
                         opacity |-> undefined]]
         IN  Done([s EXCEPT ![shapeIndex + 1] = new], undefined)

\* mutant of translateShape: the moved shape is stored at index 0
translateShapeIntoFirst(s, shapeIndex, translation) ==
    IF ~HasIndex(s, shapeIndex) THEN TypeError(s)
    ELSE LET old == At(s, shapeIndex)
             new == [j \in 1 .. Len(old) |->
                        [vector |-> addVectors(old[j].vector, translation),
                         color |-> old[j].color,
                         opacity |-> undefined]]
         IN  Done([s EXCEPT ![1] = new], undefined)

\* mutant of translateShape: only the x coordinate is moved
translateShapeAlongX(s, shapeIndex, translation) ==
    IF ~HasIndex(s, shapeIndex) THEN TypeError(s)
    ELSE LET old == At(s, shapeIndex)
             new == [j \in 1 .. Len(old) |->
                        [vector |-> createVector(NumAdd(old[j].vector.x, translation.x),
                                                 old[j].vector.y),
                         color |-> old[j].color,
                         opacity |-> undefined]]
         IN  Done([s EXCEPT ![shapeIndex + 1] = new], undefined)

translateShape(s, shapeIndex, translation) ==
    IF ~HasIndex(s, shapeIndex) THEN TypeError(s)
    ELSE LET old == At(s, shapeIndex)
             new == [j \in 1 .. Len(old) |->
                        [vector |-> addVectors(old[j].vector, translation),
                         color |-> old[j].color,
                         opacity |-> undefined]]
         IN  Done([s EXCEPT ![shapeIndex + 1] = new], undefined)

\* An angle is a whole number of steps of pi/8; Math.cos and Math.sin of it.
MathCos(angle) ==
    CASE AbsInt(angle) = 0 -> Fin(100)
      [] AbsInt(angle) = 1 -> Fin(92)
      [] AbsInt(angle) = 2 -> Fin(71)
      [] AbsInt(angle) = 3 -> Fin(38)
      [] OTHER -> Fin(0)

MathSin(angle) ==
    CASE AbsInt(angle) = 0 -> Fin(0)
      [] AbsInt(angle) = 1 -> Fin(SignInt(angle) * 38)
      [] AbsInt(angle) = 2 -> Fin(SignInt(angle) * 71)
      [] AbsInt(angle) = 3 -> Fin(SignInt(angle) * 92)
      [] OTHER -> Fin(SignInt(angle) * 100)

\* mutant of rotateShape: a sign slip in the second row of the rotation matrix
rotateShapeSignSlip(s, shapeIndex, angle) ==
    IF ~HasIndex(s, shapeIndex) THEN TypeError(s)
    ELSE LET old == At(s, shapeIndex)
             cos == MathCos(angle)
             sin == MathSin(angle)
             center == calculateCenter(old)
             turn(v) ==
                 LET translated == subtractVectors(v, center)
                     rotated == createVector(
                         NumSub(NumMul(cos, translated.x), NumMul(sin, translated.y)),
                         NumSub(NumMul(sin, translated.x), NumMul(cos, translated.y)))
                 IN  addVectors(rotated, center)
             new == [j \in 1 .. Len(old) |->
                        [vector |-> turn(old[j].vector),
                         color |-> old[j].color,
                         opacity |-> undefined]]
         IN  Done([s EXCEPT ![shapeIndex + 1] = new], undefined)

\* mutant of rotateShape: the rotation is about the origin, not the center
rotateShapeAboutOrigin(s, shapeIndex, angle) ==
    IF ~HasIndex(s, shapeIndex) THEN TypeError(s)
    ELSE LET old == At(s, shapeIndex)
             cos == MathCos(angle)
             sin == MathSin(angle)
             turn(v) ==
                 createVector(NumSub(NumMul(cos, v.x), NumMul(sin, v.y)),
                              NumAdd(NumMul(sin, v.x), NumMul(cos, v.y)))
             new == [j \in 1 .. Len(old) |->
                        [vector |-> turn(old[j].vector),
                         color |-> old[j].color,
                         opacity |-> undefined]]
         IN  Done([s EXCEPT ![shapeIndex + 1] = new], undefined)

rotateShape(s, shapeIndex, angle) ==
    IF ~HasIndex(s, shapeIndex) THEN TypeError(s)
    ELSE LET old == At(s, shapeIndex)
             cos == MathCos(angle)
             sin == MathSin(angle)
             center == calculateCenter(old)
             turn(v) ==
                 LET translated == subtractVectors(v, center)
                     rotated == createVector(
                         NumSub(NumMul(cos, translated.x), NumMul(sin, translated.y)),
                         NumAdd(NumMul(sin, translated.x), NumMul(cos, translated.y)))
                 IN  addVectors(rotated, center)
             new == [j \in 1 .. Len(old) |->
                        [vector |-> turn(old[j].vector),
                         color |-> old[j].color,
                         opacity |-> undefined]]
         IN  Done([s EXCEPT ![shapeIndex + 1] = new], undefined)

\* mutant of duplicateShape: pushes the copy that was not translated
duplicateShapeUntranslated(s, shapeIndex) ==
    IF ~HasIndex(s, shapeIndex) THEN TypeError(s)
    ELSE Done(Append(s, At(s, shapeIndex)), undefined)

duplicateShape(s, shapeIndex) ==
    IF ~HasIndex(s, shapeIndex) THEN TypeError(s)
    ELSE LET newShape == At(s, shapeIndex)
             translatedNewShape ==
                 [j \in 1 .. Len(newShape) |->
                     [newShape[j] EXCEPT
                         !.vector = addVectors(@, createVector(Fin(50), Fin(50)))]]
         IN  Done(Append(s, translatedNewShape), undefined)

\* mutant of addVector: the opacity parameter has no default
addVectorNoDefaultOpacity(s, shapeIndex, vector, color, opacity) ==
    IF ~HasIndex(s, shapeIndex) THEN TypeError(s)
    ELSE LET c == IF color = "undefined" THEN "lightgray" ELSE color
         IN  Done([s EXCEPT ![shapeIndex + 1] =
                       Append(@, [vector |-> vector, color |-> c, opacity |-> opacity])],
                  undefined)

\* an omitted argument is undefined; an omitted color is the string "undefined"
addVector(s, shapeIndex, vector, color, opacity) ==
    IF ~HasIndex(s, shapeIndex) THEN TypeError(s)
    ELSE LET c == IF color = "undefined" THEN "lightgray" ELSE color
             o == IF opacity = undefined THEN Whole(1) ELSE opacity
         IN  Done([s EXCEPT ![shapeIndex + 1] =
                       Append(@, [vector |-> vector, color |-> c, opacity |-> o])],
                  undefined)

clearVectors == Done(<< >>, undefined)

\* mutant of transformPixelToVector: the y axis is not flipped
transformPixelToVectorNoFlip(ctx, scale, x, y) ==
    IF ~ctx THEN createVector(Fin(0), Fin(0))
    ELSE LET centerX == NumDiv(Whole(CanvasWidth), Whole(2))
             centerY == NumDiv(Whole(CanvasHeight), Whole(2))
         IN  createVector(NumDiv(NumSub(x, centerX), scale),
                          NumDiv(NumSub(y, centerY), scale))

transformPixelToVector(ctx, scale, x, y) ==
    IF ~ctx THEN createVector(Fin(0), Fin(0))
    ELSE LET centerX == NumDiv(Whole(CanvasWidth), Whole(2))
             centerY == NumDiv(Whole(CanvasHeight), Whole(2))
         IN  createVector(NumDiv(NumSub(x, centerX), scale),
                          NumDiv(NumSub(centerY, y), scale))

\* the canvas position drawConnection gives a world vector
vectorToPixel(scale, v) ==
    LET centerX == NumDiv(Whole(CanvasWidth), Whole(2))
        centerY == NumDiv(Whole(CanvasHeight), Whole(2))
    IN  <<NumAdd(centerX, NumMul(v.x, scale)), NumSub(centerY, NumMul(v.y, scale))>>

(***************************************************************************)
(* The hit tester.                                                         *)
(***************************************************************************)
RECURSIVE SqrtBetween(_, _, _)
\* the largest r in lo .. hi with r * r <= n  (lo * lo <= n)
SqrtBetween(n, lo, hi) ==
    IF lo >= hi THEN lo
    ELSE LET mid == (lo + hi + 1) \div 2
         IN  IF mid * mid <= n THEN SqrtBetween(n, mid, hi)
             ELSE SqrtBetween(n, lo, mid - 1)

\* Math.sqrt(x * x + y * y), rounded once
vectorLength(v) ==
    IF v.x.k = "NaN" \/ v.y.k = "NaN" THEN NaN
    ELSE IF v.x.k = "Infinity" \/ v.y.k = "Infinity" THEN Infinity(1)
    ELSE LET n == v.x.v * v.x.v + v.y.v * v.y.v
             r == SqrtBetween(n, 0, AbsInt(v.x.v) + AbsInt(v.y.v))
         IN  Fin(IF n - r * r > r THEN r + 1 ELSE r)

dot(v1, v2) == NumAdd(NumMul(v1.x, v2.x), NumMul(v1.y, v2.y))

\* distance from p to the segment a-b: the projection parameter is clamped
\* to [0, 1]; a segment of length 0 is the point a
distanceToSegment(p, a, b) ==
    LET ab == subtractVectors(b, a)
        ap == subtractVectors(p, a)
        lengthSquared == dot(ab, ab)
    IN  IF lengthSquared = Fin(0) THEN vectorLength(ap)
        ELSE LET t == NumDiv(dot(ap, ab), lengthSquared)
                 clamped == IF NumLess(t, Fin(0)) THEN Fin(0)
                            ELSE IF NumLess(Whole(1), t) THEN Whole(1)
                            ELSE t
                 nearest == addVectors(a, scaleVector(ab, clamped))
             IN  vectorLength(subtractVectors(p, nearest))

\* some segment j -> (j + 1) mod length of the shape is within threshold of p
shapeIsHit(shape, clickPoint, threshold) ==
    \E j \in 0 .. (Len(shape) - 1) :
        LET d == distanceToSegment(clickPoint, At(shape, j).vector,
                                   At(shape, (j + 1) % Len(shape)).vector)
        IN  d = threshold \/ NumLess(d, threshold)

RECURSIVE scanShapes(_, _, _, _)
scanShapes(s, clickPoint, threshold, i) ==
    IF i >= Len(s) THEN -1
    ELSE IF shapeIsHit(At(s, i), clickPoint, threshold) THEN i
    ELSE scanShapes(s, clickPoint, threshold, i + 1)

\* mutant of selectShapeWithPointer: the last shape that is hit wins
selectShapeWithPointerLastMatch(s, clickPoint, threshold) ==
    LET hits == {i \in 0 .. (Len(s) - 1) : shapeIsHit(At(s, i), clickPoint, threshold)}
    IN  IF hits = {} THEN -1 ELSE CHOOSE i \in hits : \A j \in hits : j <= i

selectShapeWithPointer(s, clickPoint, threshold) == scanShapes(s, clickPoint, threshold, 0)

(***************************************************************************)
(* The SVG serializer.  The document is kept as its parts: the width and   *)
(* height of the header, and one element per shape, in order, which is     *)
(* either a path (its commands and its stroke) or the empty string.        *)
(***************************************************************************)
TwoDigits(n) == IF n < 10 THEN "0" \o ToString(n) ELSE ToString(n)

\* Number.prototype.toFixed(2)
toFixed2(a) ==
    CASE a.k = "fin" ->
            LET h == RoundDiv(a.v * 100, Unit)
            IN  (IF h < 0 THEN "-" ELSE "") \o ToString(AbsInt(h) \div 100)
                    \o "." \o TwoDigits(AbsInt(h) % 100)
      [] a.k = "Infinity" -> IF a.v < 0 THEN "-Infinity" ELSE "Infinity"
      [] OTHER -> "NaN"

\* mutant of scaleCoordinate: the factor 0.5 is left out
scaleCoordinateWhole(value, max, width, height) ==
    NumMul(NumDiv(value, max), IF NumLess(width, height) THEN width ELSE height)

scaleCoordinate(value, max, width, height) ==
    NumMul(NumMul(NumDiv(value, max), IF NumLess(width, height) THEN width ELSE height),
           Fin(50))

RECURSIVE flat(_, _)
flat(s, n) == IF n = 0 THEN << >> ELSE flat(s, n - 1) \o s[n]

RECURSIVE reduceMax(_, _)
reduceMax(points, n) ==
    IF n = 0 THEN Fin(0)
    ELSE MathMax(MathMax(reduceMax(points, n - 1), NumAbs(points[n].vector.x)),
                 NumAbs(points[n].vector.y))

EmptyString == [path |-> FALSE, d |-> << >>, stroke |-> ""]

\* mutant of pathElement: the stroke is the color of the last point
pathElementStrokeOfLastPoint(shape, maxValue, width, height) ==
    IF Len(shape) = 0 THEN EmptyString
    ELSE [path |-> TRUE,
          d |-> [index \in 1 .. Len(shape) |->
                    LET x == NumAdd(scaleCoordinate(shape[index].vector.x, maxValue,
                                                    width, height),
                                    NumDiv(width, Whole(2)))
                        y == NumSub(NumDiv(height, Whole(2)),
                                    scaleCoordinate(shape[index].vector.y, maxValue,
                                                    width, height))
                    IN  [cmd |-> IF index = 1 THEN "M" ELSE "L",
                         x |-> toFixed2(x), y |-> toFixed2(y)]],
          stroke |-> shape[Len(shape)].color]

pathElement(shape, maxValue, width, height) ==
    IF Len(shape) = 0 THEN EmptyString
    ELSE [path |-> TRUE,
          d |-> [index \in 1 .. Len(shape) |->
                    LET x == NumAdd(scaleCoordinate(shape[index].vector.x, maxValue,
                                                    width, height),
                                    NumDiv(width, Whole(2)))
                        y == NumSub(NumDiv(height, Whole(2)),
                                    scaleCoordinate(shape[index].vector.y, maxValue,
                                                    width, height))
                    IN  [cmd |-> IF index = 1 THEN "M" ELSE "L",
                         x |-> toFixed2(x), y |-> toFixed2(y)]],
          stroke |-> shape[1].color]

\* mutant of serializeToSVG: the first point of a shape is taken with shift()
serializeToSVGShifting(s, width, height) ==
    LET points == flat(s, Len(s))
        maxValue == reduceMax(points, Len(points))
    IN  Done([i \in 1 .. Len(s) |-> IF Len(s[i]) = 0 THEN s[i] ELSE Tail(s[i])],
             [width |-> width, height |-> height,
              pathElements |-> [i \in 1 .. Len(s) |->
                                   pathElement(s[i], maxValue, width, height)]])

\* the string is returned as its parts; the shapes are read and left as they are
serializeToSVG(s, width, height) ==
    LET points == flat(s, Len(s))
        maxValue == reduceMax(points, Len(points))
    IN  Done(s, [width |-> width, height |-> height,
                 pathElements |-> [i \in 1 .. Len(s) |->
                                      pathElement(s[i], maxValue, width, height)]])

(***************************************************************************)
(* Inputs.                                                                 *)
(***************************************************************************)
\* the arguments of addVector after the index: vector, color, opacity
\* (an omitted color is "undefined", an omitted opacity is undefined)
AddVectorInputs ==
    { <<createVector(Fin(0), Fin(0)), "red", Fin(50)>>,
      <<createVector(Whole(1), Fin(0)), "undefined", undefined>> }

\* an index argument: every index of the collection, the one below and the one above
IndexInputs == -1 .. Len(shapes)

SelectInputs == {0}
\* a factor and its inverse, a translation and its opposite, an angle (in
\* steps of pi/8) and its opposite
ScalarInputs == {Fin(50), Whole(2)}
TranslationInputs == {createVector(Fin(50), Whole(1)), createVector(Fin(-50), Whole(-1))}
AngleInputs == {1, -1}
ClickInputs == {createVector(Fin(50), Fin(0)), createVector(Fin(50), Fin(50)),
                createVector(Whole(3), Whole(3))}
ThresholdInputs == {Fin(10), Fin(60)}
\* canvas-relative pixel positions of a pointer event
PixelInputs == {<<200, 200>>, <<250, 200>>}
\* the x, y arguments of a call of transformPixelToVector
PixelArguments == PixelInputs \cup {<<250, 150>>, <<0, 400>>}
\* the scale parameter of the hook; the quotients of the pixel offsets above
\* by a scale other than 0 are whole
ScaleInputs == {50, 25, 0}
ExportSizes == {<<Whole(500), Whole(500)>>, <<Whole(200), Whole(400)>>}

\* the point addVector stores for the arguments a
StoredPoint(a) == At(addVector(<< << >> >>, 0, a[1], a[2], a[3]).shapes, 0)[1]

SeqsUpTo(S, n) == UNION {[1 .. k -> S] : k \in 0 .. n}

\* drawings to export: points on both sides of the origin, on and inside the
\* largest absolute coordinate, and a point addVector was given Infinity for
ExportedPoint(x, y) == StoredPoint(<<createVector(x, y), "undefined", undefined>>)

ExportInputs ==
    { << <<ExportedPoint(Whole(-2), Fin(50)), ExportedPoint(Whole(1), Whole(-1))>> >>,
      << <<ExportedPoint(Fin(0), Whole(-2))>>, <<ExportedPoint(Fin(50), Whole(2))>> >>,
      << <<ExportedPoint(Infinity(1), Whole(1)), ExportedPoint(Whole(1), Fin(0))>> >> }

\* the collections addShape and addVector build from the inputs, within the bounds
Collections(inputs) ==
    SeqsUpTo(SeqsUpTo({StoredPoint(a) : a \in inputs}, MaxPoints), MaxShapes)

\* the polyline of the scenario (0,0) - (1,0) - (1,1), closed to a square, as
\* addVector stores it; the first point is red and half opaque
DrawnPoints ==
    << StoredPoint(<<createVector(Fin(0), Fin(0)), "red", Fin(50)>>),
       StoredPoint(<<createVector(Whole(1), Fin(0)), "undefined", undefined>>),
       StoredPoint(<<createVector(Whole(1), Whole(1)), "undefined", undefined>>),
       StoredPoint(<<createVector(Fin(0), Whole(1)), "undefined", undefined>>) >>

\* the collections whose shapes are that polyline as far as it has been drawn
Polylines ==
    SeqsUpTo({SubSeq(DrawnPoints, 1, k) : k \in 0 .. MaxPoints}, MaxShapes)

(***************************************************************************)
(* What is recorded of a call, until the render that follows it.           *)
(***************************************************************************)
NoCall == [op |-> "none", args |-> << >>]
NoReturn == [value |-> undefined, threw |-> FALSE]
NoPrev == [shapes |-> << >>, selectedShape |-> null]

Record(op, args, r) ==
    /\ call' = [op |-> op, args |-> args]
    /\ prev' = [shapes |-> shapes, selectedShape |-> selectedShape]
    /\ ret' = [value |-> r.value, threw |-> r.threw]

\* the model's bounds on what a call may build
WithinBounds(s) ==
    /\ Len(s) <= MaxShapes
    /\ \A i \in 1 .. Len(s) : Len(s[i]) <= MaxPoints

Counted(r) == IF r.threw THEN nTransforms ELSE nTransforms + 1

\* what has been exported, after a call of serializeToSVG: the strings
\* returned for these shapes and this size since they were last asked for; a
\* string that was returned before is marked as returned again
Exported(size, value) ==
    LET asked == {e \in exported : e.shapes = shapes /\ e.size = size}
        same == {e \in asked : e.value = value}
        entry(again) ==
            [shapes |-> shapes, size |-> size, value |-> value, again |-> again]
    IN  IF same = {} THEN asked \cup {entry(FALSE)}
        ELSE (asked \ same) \cup {entry(TRUE)}

\* the trail after a transform call: a call that threw leaves no entry
Traced(op, args, r) ==
    IF r.threw THEN trail
    ELSE Append(trail, [op |-> op, args |-> args, shapes |-> shapes])

\* the render that follows a call or a handler: the drawing is redone from
\* the new state, and the next call or handler sees the new state
Render ==
    /\ call # NoCall
    /\ call' = NoCall
    /\ prev' = NoPrev
    /\ ret' = NoReturn
    /\ UNCHANGED <<ui, context, shapes, selectedShape, zoom, mode, nTransforms, trail, exported, listening, debounceRef, timeout>>

(***************************************************************************)
(* Calls of the hook's functions by any caller (ui = "hook").              *)
(***************************************************************************)
CallAddShape ==
    /\ ui = "hook" /\ call = NoCall
    /\ LET r == addShape(shapes)
       IN  /\ WithinBounds(r.shapes)
           /\ shapes' = r.shapes
           /\ Record("addShape", << >>, r)
    /\ UNCHANGED <<ui, context, selectedShape, zoom, mode, nTransforms, trail, exported, listening, debounceRef, timeout>>

CallRemoveShape ==
    /\ ui = "hook" /\ call = NoCall
    /\ \E index \in IndexInputs :
        LET r == removeShape(shapes, index)
        IN  /\ shapes' = r.shapes
            /\ Record("removeShape", <<index>>, r)
    /\ UNCHANGED <<ui, context, selectedShape, zoom, mode, nTransforms, trail, exported, listening, debounceRef, timeout>>

CallAddVector ==
    /\ ui = "hook" /\ call = NoCall
    /\ \E shapeIndex \in IndexInputs, a \in AddVectorInputs :
        LET r == addVector(shapes, shapeIndex, a[1], a[2], a[3])
        IN  /\ WithinBounds(r.shapes)
            /\ shapes' = r.shapes
            /\ Record("addVector", <<shapeIndex, a[1], a[2], a[3]>>, r)
    /\ UNCHANGED <<ui, context, selectedShape, zoom, mode, nTransforms, trail, exported, listening, debounceRef, timeout>>

CallDuplicateShape ==
    /\ ui = "hook" /\ call = NoCall
    /\ nTransforms < MaxTransforms
    /\ \E shapeIndex \in IndexInputs :
        LET r == duplicateShape(shapes, shapeIndex)
        IN  /\ WithinBounds(r.shapes)
            /\ shapes' = r.shapes
            /\ nTransforms' = Counted(r)
            /\ UNCHANGED <<trail, exported, listening, debounceRef, timeout>>
            /\ Record("duplicateShape", <<shapeIndex>>, r)
    /\ UNCHANGED <<ui, context, selectedShape, zoom, mode>>

CallClearVectors ==
    /\ ui = "hook" /\ call = NoCall
    /\ LET r == clearVectors
       IN  /\ shapes' = r.shapes
           /\ Record("clearVectors", << >>, r)
    /\ nTransforms' = 0
    /\ UNCHANGED <<trail, exported, listening, debounceRef, timeout>>
    /\ UNCHANGED <<ui, context, selectedShape, zoom, mode>>

CallSelectShape ==
    /\ ui = "hook" /\ call = NoCall
    /\ \E index \in SelectInputs :
        /\ selectedShape' = selectShape(index)
        /\ Record("selectShape", <<index>>, Done(shapes, undefined))
    /\ UNCHANGED <<ui, context, shapes, zoom, mode, nTransforms, trail, exported, listening, debounceRef, timeout>>

CallDeselectShape ==
    /\ ui = "hook" /\ call = NoCall
    /\ selectedShape' = deselectShape
    /\ Record("deselectShape", << >>, Done(shapes, undefined))
    /\ UNCHANGED <<ui, context, shapes, zoom, mode, nTransforms, trail, exported, listening, debounceRef, timeout>>

CallScaleShape ==
    /\ ui = "hook" /\ call = NoCall
    /\ Len(trail) < MaxCalls
    /\ \E shapeIndex \in IndexInputs, scalar \in ScalarInputs :
        LET r == scaleShape(shapes, shapeIndex, scalar)
        IN  /\ shapes' = r.shapes
            /\ nTransforms' = Counted(r)
            /\ trail' = Traced("scaleShape", <<shapeIndex, scalar>>, r)
            /\ UNCHANGED <<exported, listening, debounceRef, timeout>>
            /\ Record("scaleShape", <<shapeIndex, scalar>>, r)
    /\ UNCHANGED <<ui, context, selectedShape, zoom, mode>>

CallTranslateShape ==
    /\ ui = "hook" /\ call = NoCall
    /\ Len(trail) < MaxCalls
    /\ \E shapeIndex \in IndexInputs, translation \in TranslationInputs :
        LET r == translateShape(shapes, shapeIndex, translation)
        IN  /\ shapes' = r.shapes
            /\ nTransforms' = Counted(r)
            /\ trail' = Traced("translateShape", <<shapeIndex, translation>>, r)
            /\ UNCHANGED <<exported, listening, debounceRef, timeout>>
            /\ Record("translateShape", <<shapeIndex, translation>>, r)
    /\ UNCHANGED <<ui, context, selectedShape, zoom, mode>>

CallRotateShape ==
    /\ ui = "hook" /\ call = NoCall
    /\ Len(trail) < MaxCalls
    /\ \E shapeIndex \in IndexInputs, angle \in AngleInputs :
        LET r == rotateShape(shapes, shapeIndex, angle)
        IN  /\ shapes' = r.shapes
            /\ nTransforms' = Counted(r)
            /\ trail' = Traced("rotateShape", <<shapeIndex, angle>>, r)
            /\ UNCHANGED <<exported, listening, debounceRef, timeout>>
            /\ Record("rotateShape", <<shapeIndex, angle>>, r)
    /\ UNCHANGED <<ui, context, selectedShape, zoom, mode>>

CallTransformPixelToVector ==
    /\ ui = "hook" /\ call = NoCall
    /\ \E p \in PixelArguments :
        Record("transformPixelToVector", p,
               Done(shapes, transformPixelToVector(context, Whole(zoom),
                                                   Whole(p[1]), Whole(p[2]))))
    /\ UNCHANGED <<ui, context, shapes, selectedShape, zoom, mode, nTransforms, trail, exported, listening, debounceRef, timeout>>

CallSelectShapeWithPointer ==
    /\ ui = "hook" /\ call = NoCall
    /\ \E clickPoint \in ClickInputs, threshold \in ThresholdInputs :
        Record("selectShapeWithPointer", <<clickPoint, threshold>>,
               Done(shapes, selectShapeWithPointer(shapes, clickPoint, threshold)))
    /\ UNCHANGED <<ui, context, shapes, selectedShape, zoom, mode, nTransforms, trail, exported, listening, debounceRef, timeout>>

CallSerializeToSVG ==
    /\ ui = "hook" /\ call = NoCall
    /\ \E size \in ExportSizes :
        LET r == serializeToSVG(shapes, size[1], size[2])
        IN  /\ shapes' = r.shapes
            /\ exported' = Exported(size, r.value)
            /\ Record("serializeToSVG", size, r)
    /\ UNCHANGED <<ui, context, selectedShape, zoom, mode, nTransforms, trail,
                   listening, debounceRef, timeout>>

\* the hook as useState initialises it
InitHook ==
    /\ ui = "hook"
    /\ context = TRUE
    /\ shapes = InitialShapes
    /\ selectedShape = InitialSelectedShape
    /\ zoom = DEFAULT_ZOOM
    /\ mode = "none"
    /\ nTransforms = 0
    /\ trail = << >>
    /\ exported = {}
    /\ listening = FALSE
    /\ debounceRef = null
    /\ timeout = null
    /\ call = NoCall
    /\ prev = NoPrev
    /\ ret = NoReturn

\* the store: the operations that build and take apart the collection
NextStore ==
    \/ Render
    \/ CallAddShape
    \/ CallRemoveShape
    \/ CallAddVector
    \/ CallDuplicateShape
    \/ CallClearVectors
    \/ CallSelectShape
    \/ CallDeselectShape

SpecStore == InitHook /\ [][NextStore]_vars

\* the transforms, from any collection the store can have built
InitTransform ==
    /\ ui = "hook"
    /\ context = TRUE
    /\ shapes \in Polylines
    /\ selectedShape = InitialSelectedShape
    /\ zoom = DEFAULT_ZOOM
    /\ mode = "none"
    /\ nTransforms = 0
    /\ trail = << >>
    /\ exported = {}
    /\ listening = FALSE
    /\ debounceRef = null
    /\ timeout = null
    /\ call = NoCall
    /\ prev = NoPrev
    /\ ret = NoReturn

NextTransform ==
    \/ Render
    \/ CallScaleShape
    \/ CallTranslateShape
    \/ CallRotateShape

SpecTransform == InitTransform /\ [][NextTransform]_vars

\* the functions that read the state and change nothing
InitPure ==
    /\ ui = "hook"
    /\ \/ /\ context \in BOOLEAN
          /\ zoom \in ScaleInputs
          /\ shapes = InitialShapes
       \/ /\ context = TRUE
          /\ zoom = DEFAULT_ZOOM
          /\ shapes \in Collections(AddVectorInputs)
    /\ selectedShape = null
    /\ mode = "none"
    /\ nTransforms = 0
    /\ trail = << >>
    /\ exported = {}
    /\ listening = FALSE
    /\ debounceRef = null
    /\ timeout = null
    /\ call = NoCall
    /\ prev = NoPrev
    /\ ret = NoReturn

NextPure ==
    \/ Render
    \/ CallTransformPixelToVector
    \/ CallSelectShapeWithPointer
    \/ CallSerializeToSVG

SpecPure == InitPure /\ [][NextPure]_vars

\* the export, from the collections the store can have built and from the
\* drawings to export
InitExport ==
    /\ ui = "hook"
    /\ context = TRUE
    /\ shapes \in Collections(AddVectorInputs) \cup ExportInputs
    /\ selectedShape = null
    /\ zoom = DEFAULT_ZOOM
    /\ mode = "none"
    /\ nTransforms = 0
    /\ trail = << >>
    /\ exported = {}
    /\ listening = FALSE
    /\ debounceRef = null
    /\ timeout = null
    /\ call = NoCall
    /\ prev = NoPrev
    /\ ret = NoReturn

NextExport ==
    \/ Render
    \/ CallSerializeToSVG

SpecExport == InitExport /\ [][NextExport]_vars

(***************************************************************************)
(* The App component: one action per event handler.  A handler whose       *)
(* button is rendered only while a shape is selected is enabled only then. *)
(* ui = "V1" is the component of canvas.tsx lines 115-412, ui = "V2" the   *)
(* one of lines 540-897.                                                   *)
(***************************************************************************)
TRANSLATION_STEP == 50

\* no handler is running; one pointer gives the events, so that no button is
\* pressed while a freehand drag is under way
Idle == ui \in {"V1", "V2"} /\ call = NoCall /\ ~listening

(***************************************************************************)
(* The closure of the debounced callback: the selectedShape and the scale  *)
(* of the render that made it, and the arrays of that render's shapes.     *)
(* addVector pushes onto such an array in place, so an array that is still *)
(* in the state (at is its index there) has the points the state has, and  *)
(* one that is not (at = -1) has the points it had when it left the state  *)
(* and those pushed since (kept).                                          *)
(***************************************************************************)
Snapshot ==
    [selectedShape |-> selectedShape, scale |-> zoom,
     objects |-> [j \in 1 .. Len(shapes) |-> [at |-> j - 1, kept |-> << >>]]]

Contents(c) ==
    [j \in 1 .. Len(c.objects) |->
        IF c.objects[j].at >= 0 THEN At(shapes, c.objects[j].at) ELSE c.objects[j].kept]

Loose(o) == IF o.at >= 0 THEN [at |-> -1, kept |-> At(shapes, o.at)] ELSE o

\* the closure after the state has taken other arrays: none of them changed,
\* every array replaced, the array at index replaced, the array at index
\* filtered out, the arrays of the closure itself set as the state
Kept(c) == c

Cleared(c) == [c EXCEPT !.objects = [j \in 1 .. Len(c.objects) |-> Loose(c.objects[j])]]

Replaced(c, index) ==
    [c EXCEPT !.objects = [j \in 1 .. Len(c.objects) |->
        IF c.objects[j].at = index THEN Loose(c.objects[j]) ELSE c.objects[j]]]

Removed(c, index) ==
    IF ~HasIndex(shapes, index) THEN c
    ELSE [c EXCEPT !.objects = [j \in 1 .. Len(c.objects) |->
             IF c.objects[j].at = index THEN Loose(c.objects[j])
             ELSE IF c.objects[j].at > index
                  THEN [at |-> c.objects[j].at - 1, kept |-> << >>]
                  ELSE c.objects[j]]]

Attached(c) ==
    [c EXCEPT !.objects = [j \in 1 .. Len(c.objects) |-> [at |-> j - 1, kept |-> << >>]]]

Relinked(c, how, index) ==
    CASE how = "kept" -> Kept(c)
      [] how = "cleared" -> Cleared(c)
      [] how = "replaced" -> Replaced(c, index)
      [] how = "removed" -> Removed(c, index)

\* debounceRef and the timer after a handler: how is what the handler did to
\* the arrays (at index), reset whether it set debounceRef.current to null
Closures(how, index, reset) ==
    /\ debounceRef' = IF reset \/ debounceRef = null THEN null
                      ELSE <<Relinked(debounceRef[1], how, index)>>
    /\ timeout' = IF timeout = null THEN null
                  ELSE <<[closure |-> Relinked(timeout[1].closure, how, index),
                          event |-> timeout[1].event]>>

\* the model's bound on what the handlers may draw: the points of the collection
RECURSIVE countPoints(_, _)
countPoints(s, n) == IF n = 0 THEN 0 ELSE countPoints(s, n - 1) + Len(s[n])

Drawable(s) == WithinBounds(s) /\ countPoints(s, Len(s)) <= MaxDrawn

\* the pointer position of an event as transformPixelToVector maps it
EventVector(p) == transformPixelToVector(context, Whole(zoom), Whole(p[1]), Whole(p[2]))

handleClear ==
    /\ Idle
    /\ selectedShape' = deselectShape
    /\ shapes' = clearVectors.shapes
    /\ zoom' = DEFAULT_ZOOM
    /\ nTransforms' = 0
    /\ Closures("cleared", 0, TRUE)
    /\ UNCHANGED <<trail, exported, listening>>
    /\ Record("handleClear", << >>, clearVectors)
    /\ UNCHANGED <<ui, context, mode>>

handleAddShape ==
    /\ Idle
    /\ IF ui = "V2" /\ Len(shapes) > 0 /\ Len(shapes[Len(shapes)]) = 0
       THEN /\ Record("handleAddShape", << >>, Done(shapes, undefined))
            /\ UNCHANGED <<shapes, selectedShape, debounceRef, timeout>>
       ELSE LET r == addShape(shapes)
            IN  /\ Drawable(r.shapes)
                /\ shapes' = r.shapes
                /\ selectedShape' = selectShape(r.value)
                /\ Closures("kept", 0, ui = "V2")
                /\ Record("handleAddShape", << >>, r)
    /\ UNCHANGED <<ui, context, zoom, mode, nTransforms, trail, exported, listening>>

handleRemoveShape ==
    /\ Idle
    /\ selectedShape # null
    /\ selectedShape[1] > -MaxBelowZero
    /\ IF Len(shapes) = 1
       THEN /\ selectedShape' = deselectShape
            /\ shapes' = clearVectors.shapes
            /\ zoom' = DEFAULT_ZOOM
            /\ nTransforms' = 0
            /\ Closures("cleared", 0, TRUE)
            /\ UNCHANGED <<trail, exported, listening>>
            /\ Record("handleRemoveShape", <<selectedShape[1]>>, clearVectors)
       ELSE LET r == removeShape(shapes, selectedShape[1])
            IN  /\ selectedShape' =
                       IF ui = "V1" THEN selectedShape
                       ELSE IF Len(shapes) > 1 THEN selectShape(selectedShape[1] - 1)
                       ELSE deselectShape
                /\ shapes' = r.shapes
                /\ Closures("removed", selectedShape[1], ui = "V2")
                /\ Record("handleRemoveShape", <<selectedShape[1]>>, r)
                /\ UNCHANGED <<zoom, nTransforms, trail, exported, listening>>
    /\ UNCHANGED <<ui, context, mode>>

\* the shape buttons of the first component
clickShapeButton ==
    /\ Idle /\ ui = "V1"
    /\ \E index \in 0 .. (Len(shapes) - 1) :
        /\ selectedShape' = selectShape(index)
        /\ Record("selectShape", <<index>>, Done(shapes, undefined))
    /\ UNCHANGED <<ui, context, shapes, zoom, mode, nTransforms, trail, exported, listening, debounceRef, timeout>>

handleDeselectShape ==
    /\ Idle /\ ui = "V2"
    /\ selectedShape # null
    /\ selectedShape' = deselectShape
    /\ mode' = "selectShape"
    /\ Closures("kept", 0, TRUE)
    /\ Record("handleDeselectShape", << >>, Done(shapes, undefined))
    /\ UNCHANGED <<ui, context, shapes, zoom, nTransforms, trail, exported, listening>>

\* what both pointer-down handlers do once the mode is a drawing mode
DrawingPointerDown(op, p) ==
    IF selectedShape = null
    THEN LET r == addShape(shapes)
         IN  /\ Drawable(r.shapes)
             /\ shapes' = r.shapes
             /\ selectedShape' = selectShape(r.value)
             /\ Record(op, p, r)
             /\ UNCHANGED <<listening, debounceRef, timeout>>
    ELSE IF mode = "point"
    THEN LET r == addVector(shapes, selectedShape[1], EventVector(p), "undefined", undefined)
         IN  /\ Drawable(r.shapes)
             /\ shapes' = r.shapes
             /\ Record(op, p, r)
             /\ UNCHANGED <<selectedShape, listening, debounceRef, timeout>>
    ELSE \* freehand: the pointer-move and pointer-up listeners are added
         /\ listening' = TRUE
         /\ Closures("kept", 0, ui = "V2")
         /\ Record(op, p, Done(shapes, undefined))
         /\ UNCHANGED <<shapes, selectedShape>>

\* the zoom factors at which the model lets a pointer go down on the canvas:
\* those near the default one, and those that are not positive
PointerDownZooms ==
    {z \in (DEFAULT_ZOOM - MaxZoomOut * ZOOM_STEP) .. (DEFAULT_ZOOM + MaxZoomSteps * ZOOM_STEP) :
        AbsInt(z - DEFAULT_ZOOM) <= MaxZoomSteps * ZOOM_STEP \/ z <= 0}

\* a pointer goes down on the canvas once the debounced callback of the
\* drag before has run
handleAddVector ==
    /\ Idle /\ ui = "V1"
    /\ timeout = null
    /\ zoom \in PointerDownZooms
    /\ \E p \in PixelInputs : DrawingPointerDown("handleAddVector", p)
    /\ UNCHANGED <<ui, context, zoom, mode, nTransforms, trail, exported>>

\* mutant of handleCanvasInteraction: the index of the hit test is selected
\* without the test against -1
handleCanvasInteractionSelectsMiss ==
    /\ Idle /\ ui = "V2"
    /\ timeout = null
    /\ zoom \in PointerDownZooms
    /\ \E p \in PixelInputs :
        IF mode = "selectShape"
        THEN LET index == selectShapeWithPointer(shapes, EventVector(p), Fin(10))
             IN  /\ selectedShape' = selectShape(index)
                 /\ Record("handleCanvasInteraction", p, Done(shapes, index))
                 /\ UNCHANGED <<shapes, listening, debounceRef, timeout>>
        ELSE DrawingPointerDown("handleCanvasInteraction", p)
    /\ UNCHANGED <<ui, context, zoom, mode, nTransforms, trail, exported>>

handleCanvasInteraction ==
    /\ Idle /\ ui = "V2"
    /\ timeout = null
    /\ zoom \in PointerDownZooms
    /\ \E p \in PixelInputs :
        IF mode = "selectShape"
        THEN LET index == selectShapeWithPointer(shapes, EventVector(p), Fin(10))
             IN  /\ selectedShape' = IF index # -1 THEN selectShape(index) ELSE selectedShape
                 /\ Record("handleCanvasInteraction", p, Done(shapes, index))
                 /\ UNCHANGED <<shapes, listening, debounceRef, timeout>>
        ELSE DrawingPointerDown("handleCanvasInteraction", p)
    /\ UNCHANGED <<ui, context, zoom, mode, nTransforms, trail, exported>>

\* a button of the panel of the selected shape that calls one transform
TransformButton(op, r) ==
    /\ Idle
    /\ selectedShape # null
    /\ nTransforms < MaxTransforms
    /\ Drawable(r.shapes)
    /\ shapes' = r.shapes
    /\ nTransforms' = Counted(r)
    /\ IF r.threw THEN UNCHANGED <<debounceRef, timeout>>
       ELSE IF op = "handleDuplicateShape" THEN Closures("kept", 0, ui = "V2")
       ELSE Closures("replaced", selectedShape[1], ui = "V2")
    /\ UNCHANGED <<trail, exported, listening>>
    /\ Record(op, <<selectedShape[1]>>, r)
    /\ UNCHANGED <<ui, context, selectedShape, zoom, mode>>

handleMakeSmaller ==
    selectedShape # null /\
    TransformButton("handleMakeSmaller", scaleShape(shapes, selectedShape[1], Fin(90)))

handleMakeBigger ==
    selectedShape # null /\
    TransformButton("handleMakeBigger", scaleShape(shapes, selectedShape[1], Fin(110)))

handleMoveUp ==
    selectedShape # null /\
    TransformButton("handleMoveUp",
        translateShape(shapes, selectedShape[1], createVector(Fin(0), Fin(TRANSLATION_STEP))))

handleMoveRight ==
    selectedShape # null /\
    TransformButton("handleMoveRight",
        translateShape(shapes, selectedShape[1], createVector(Fin(TRANSLATION_STEP), Fin(0))))

handleMoveDown ==
    selectedShape # null /\
    TransformButton("handleMoveDown",
        translateShape(shapes, selectedShape[1], createVector(Fin(0), Fin(-TRANSLATION_STEP))))

handleMoveLeft ==
    selectedShape # null /\
    TransformButton("handleMoveLeft",
        translateShape(shapes, selectedShape[1], createVector(Fin(-TRANSLATION_STEP), Fin(0))))

handleRotateClockwise ==
    selectedShape # null /\
    TransformButton("handleRotateClockwise", rotateShape(shapes, selectedShape[1], -1))

handleRotateCounterClockwise ==
    selectedShape # null /\
    TransformButton("handleRotateCounterClockwise", rotateShape(shapes, selectedShape[1], 1))

handleDuplicateShape ==
    selectedShape # null /\
    TransformButton("handleDuplicateShape", duplicateShape(shapes, selectedShape[1]))

setMode(op, m) ==
    /\ Idle
    /\ mode' = m
    /\ Record(op, << >>, Done(shapes, undefined))
    /\ UNCHANGED <<ui, context, shapes, selectedShape, zoom, nTransforms, trail, exported, listening, debounceRef, timeout>>

choosePoint == Idle /\ setMode("choosePoint", "point")

chooseFreehand == Idle /\ setMode("chooseFreehand", "freehand")

chooseSelectShape == ui = "V2" /\ setMode("chooseSelectShape", "selectShape")

setZoom(op, z) ==
    /\ Idle
    /\ z <= DEFAULT_ZOOM + MaxZoomSteps * ZOOM_STEP
    /\ z >= DEFAULT_ZOOM - MaxZoomOut * ZOOM_STEP
    /\ zoom' = z
    /\ Closures("kept", 0, ui = "V2")
    /\ Record(op, << >>, Done(shapes, undefined))
    /\ UNCHANGED <<ui, context, shapes, selectedShape, mode, nTransforms, trail, exported, listening>>

handleZoomIn == Idle /\ setZoom("handleZoomIn", zoom + ZOOM_STEP)

handleZoomOut == Idle /\ setZoom("handleZoomOut", zoom - ZOOM_STEP)

\* a pointer-move on the canvas during a freehand drag.  The first component
\* makes the debounced callback if there is none and calls it; the second
\* calls the one there is, or else makes one and returns.  Calling it sets
\* its timer anew.
debouncedHandleFreehandDrawing ==
    /\ ui \in {"V1", "V2"} /\ call = NoCall /\ listening
    /\ debounceRef = null => timeout = null
    /\ \E p \in PixelInputs :
        LET made == IF debounceRef = null THEN Snapshot ELSE debounceRef[1]
        IN  /\ debounceRef' = <<made>>
            /\ timeout' = IF ui = "V2" /\ debounceRef = null THEN timeout
                          ELSE <<[closure |-> made, event |-> p]>>
    /\ UNCHANGED <<ui, context, shapes, selectedShape, zoom, mode, nTransforms, trail,
                   exported, listening, call, prev, ret>>

\* the timer of the debounced callback fires: addVector of the render that
\* made the callback pushes the point onto the array that render had for its
\* selected shape, and sets that render's arrays as the state
later ==
    /\ ui \in {"V1", "V2"} /\ call = NoCall
    /\ timeout # null
    /\ LET c == timeout[1].closure
           p == timeout[1].event
           vector == transformPixelToVector(context, Whole(c.scale),
                                            Whole(p[1]), Whole(p[2]))
           r == IF c.selectedShape = null THEN Done(shapes, undefined)
                ELSE addVector(Contents(c), c.selectedShape[1], vector,
                               "undefined", undefined)
           pushed == c.selectedShape # null /\ ~r.threw
       IN  /\ pushed => Drawable(r.shapes)
           /\ shapes' = IF pushed THEN r.shapes ELSE shapes
           /\ debounceRef' = IF pushed /\ debounceRef # null THEN <<Attached(c)>>
                             ELSE debounceRef
           /\ timeout' = null
           /\ Record("later", p, r)
    /\ UNCHANGED <<ui, context, selectedShape, zoom, mode, nTransforms, trail,
                   exported, listening>>

\* the pointer goes up: the pointer-move listener is removed; the second
\* component also resets debounceRef.  The timer is left as it is.
stopFreehandDrawing ==
    /\ ui \in {"V1", "V2"} /\ call = NoCall /\ listening
    /\ listening' = FALSE
    /\ debounceRef' = IF ui = "V2" THEN null ELSE debounceRef
    /\ UNCHANGED <<ui, context, shapes, selectedShape, zoom, mode, nTransforms, trail,
                   exported, timeout, call, prev, ret>>

\* the App as it is first rendered, with the hook's initial state
Init ==
    /\ ui \in {"V1", "V2"}
    /\ context = TRUE
    /\ shapes = InitialShapes
    /\ selectedShape = InitialSelectedShape
    /\ zoom = DEFAULT_ZOOM
    /\ mode = IF ui = "V1" THEN "point" ELSE "freehand"
    /\ nTransforms = 0
    /\ trail = << >>
    /\ exported = {}
    /\ listening = FALSE
    /\ debounceRef = null
    /\ timeout = null
    /\ call = NoCall
    /\ prev = NoPrev
    /\ ret = NoReturn

Next ==
    \/ Render
    \/ handleClear
    \/ handleAddShape
    \/ handleRemoveShape
    \/ clickShapeButton
    \/ handleDeselectShape
    \/ handleAddVector
    \/ handleCanvasInteraction
    \/ handleMakeSmaller
    \/ handleMakeBigger
    \/ handleMoveUp
    \/ handleMoveRight
    \/ handleMoveDown
    \/ handleMoveLeft
    \/ handleRotateClockwise
    \/ handleRotateCounterClockwise
    \/ handleDuplicateShape
    \/ choosePoint
    \/ chooseFreehand
    \/ chooseSelectShape
    \/ handleZoomIn
    \/ handleZoomOut
    \/ stopFreehandDrawing

Spec == Init /\ [][Next]_vars

\* selecting with the pointer: the second component, with the pointer-down
\* on the canvas, the mode buttons, and the buttons that add, remove and
\* deselect shapes
InitSelect == Init /\ ui = "V2"

NextSelect ==
    \/ Render
    \/ handleCanvasInteraction
    \/ stopFreehandDrawing
    \/ handleAddShape
    \/ handleRemoveShape
    \/ handleDeselectShape
    \/ choosePoint
    \/ chooseFreehand
    \/ chooseSelectShape

SpecSelect == InitSelect /\ [][NextSelect]_vars

\* zooming: the App with the zoom buttons, the clear button, and the
\* pointer-down that maps the pointer position with the zoom factor
NextZoom ==
    \/ Render
    \/ handleZoomIn
    \/ handleZoomOut
    \/ handleClear
    \/ choosePoint
    \/ handleAddVector
    \/ handleCanvasInteraction
    \/ stopFreehandDrawing

SpecZoom == Init /\ [][NextZoom]_vars

\* freehand drawing: the App in freehand mode, with the pointer events of a
\* drag, the timer of the debounced callback, and the buttons that add,
\* remove, move and clear
InitFreehand ==
    /\ ui \in {"V1", "V2"}
    /\ context = TRUE
    /\ shapes = InitialShapes
    /\ selectedShape = InitialSelectedShape
    /\ zoom = DEFAULT_ZOOM
    /\ mode = "freehand"
    /\ nTransforms = 0
    /\ trail = << >>
    /\ exported = {}
    /\ listening = FALSE
    /\ debounceRef = null
    /\ timeout = null
    /\ call = NoCall
    /\ prev = NoPrev
    /\ ret = NoReturn

NextFreehand ==
    \/ Render
    \/ handleAddVector
    \/ handleCanvasInteraction
    \/ debouncedHandleFreehandDrawing
    \/ later
    \/ stopFreehandDrawing
    \/ handleAddShape
    \/ handleRemoveShape
    \/ handleMoveRight
    \/ handleClear

SpecFreehand == InitFreehand /\ [][NextFreehand]_vars

(***************************************************************************)
(* Properties.                                                             *)
(***************************************************************************)
Called(op) == call.op = op /\ ~ret.threw

\* the shapes before the call, and the shape an index argument names
Before == prev.shapes
Target == At(prev.shapes, call.args[1])

\* C1: in every reachable state the selected shape index is none or an index
\* of the collection, also right after handleRemoveShape has removed the
\* selected shape from a collection of two or more shapes.
C1_SelectedShapeInRange ==
    selectedShape = null \/ HasIndex(shapes, selectedShape[1])

\* C2: duplicateShape(i) on a valid index appends exactly one shape, at the
\* index that was the length of the collection, with as many points as
\* shape i, the k-th being the k-th point of shape i moved by (0.5, 0.5);
\* the shapes that existed and the selected shape index are unchanged.
C2_DuplicateShape ==
    (call.op = "duplicateShape" /\ HasIndex(Before, call.args[1])) =>
        /\ ~ret.threw
        /\ Len(shapes) = Len(Before) + 1
        /\ \A j \in 1 .. Len(Before) : shapes[j] = Before[j]
        /\ Len(shapes[Len(shapes)]) = Len(Target)
        /\ \A k \in 1 .. Len(Target) :
            LET new == shapes[Len(shapes)][k]
            IN  /\ new.vector.x = Fin(Target[k].vector.x.v + Unit \div 2)
                /\ new.vector.y = Fin(Target[k].vector.y.v + Unit \div 2)
                /\ new.color = Target[k].color
                /\ new.opacity = Target[k].opacity
        /\ selectedShape = prev.selectedShape

C2_Witness ==
    /\ Called("duplicateShape")
    /\ Len(Target) = 2
    /\ Target[1].vector # Target[2].vector
    /\ prev.selectedShape # null

\* C3: removeShape(index) on a valid index shortens the collection by one;
\* a shape at a position below index stays where it was, a shape at a
\* position above index moves down by one, and each is unchanged.
C3_RemoveShape ==
    (call.op = "removeShape" /\ HasIndex(Before, call.args[1])) =>
        /\ ~ret.threw
        /\ Len(shapes) = Len(Before) - 1
        /\ \A j \in 0 .. (Len(Before) - 1) :
            /\ j < call.args[1] => At(shapes, j) = At(Before, j)
            /\ j > call.args[1] => At(shapes, j - 1) = At(Before, j)

C3_Witness ==
    /\ Called("removeShape")
    /\ call.args[1] = 0
    /\ Len(Before) = 2
    /\ Before[1] # Before[2]
    /\ Len(Before[2]) > 0

\* C4: addVector(shapeIndex, vector, color?, opacity?) on a valid index
\* appends one point to shape shapeIndex, carrying the vector, the color
\* (default "lightgray") and the opacity (default 1); the earlier points of
\* that shape, every other shape and the number of shapes are unchanged.
C4_AddVector ==
    (call.op = "addVector" /\ HasIndex(Before, call.args[1])) =>
        /\ ~ret.threw
        /\ Len(shapes) = Len(Before)
        /\ \A j \in 0 .. (Len(Before) - 1) :
            j # call.args[1] => At(shapes, j) = At(Before, j)
        /\ LET new == At(shapes, call.args[1])
           IN  /\ Len(new) = Len(Target) + 1
               /\ \A k \in 1 .. Len(Target) : new[k] = Target[k]
               /\ new[Len(new)].vector = call.args[2]
               /\ new[Len(new)].color =
                      IF call.args[3] = "undefined" THEN "lightgray" ELSE call.args[3]
               /\ new[Len(new)].opacity =
                      IF call.args[4] = undefined THEN Fin(Unit) ELSE call.args[4]

C4_Witness ==
    /\ Called("addVector")
    /\ Len(Before) = 2
    /\ Len(Target) = 1
    /\ call.args[3] = "undefined"
    /\ call.args[4] = undefined
    /\ Target[1].opacity = Fin(50)

\* C5: addShape() appends one empty shape at the end of the collection,
\* leaves every existing shape unchanged at its index, and returns the index
\* of the new shape, the new length minus one.
C5_AddShape ==
    call.op = "addShape" =>
        /\ ~ret.threw
        /\ Len(shapes) = Len(Before) + 1
        /\ \A j \in 1 .. Len(Before) : shapes[j] = Before[j]
        /\ shapes[Len(shapes)] = << >>
        /\ ret.value = Len(shapes) - 1

C5_Witness ==
    /\ Called("addShape")
    /\ Len(Before) = 1
    /\ Len(Before[1]) = 2
    /\ ret.value = 1

\* C6: the clear-all action resets the editor to its initial state: after
\* handleClear the collection and the selected shape index are what they
\* were when the session started.
C6_ClearRestoresInitialState ==
    call.op = "handleClear" =>
        /\ shapes = InitialShapes
        /\ selectedShape = InitialSelectedShape

\* C7: scaleShape, translateShape and rotateShape preserve the style of every
\* point: each point of the target shape has after the call the color and
\* the opacity it had before.
C7_TransformsPreserveStyle ==
    (call.op \in {"scaleShape", "translateShape", "rotateShape"} /\ ~ret.threw) =>
        \A k \in 1 .. Len(Target) :
            /\ At(shapes, call.args[1])[k].color = Target[k].color
            /\ At(shapes, call.args[1])[k].opacity = Target[k].opacity

\* C8: selectShapeWithPointer(clickPoint, threshold) returns the lowest index
\* of a shape with a segment j -> (j + 1) mod length whose clamped distance
\* to clickPoint is at most threshold, also when a shape of a higher index is
\* closer, and -1 exactly when no shape has such a segment.
WithinThreshold(shape, p, threshold) ==
    \E j \in 0 .. (Len(shape) - 1) :
        LET d == distanceToSegment(p, At(shape, j).vector,
                                   At(shape, (j + 1) % Len(shape)).vector)
        IN  ~NumLess(threshold, d)

C8_FirstShapeWithinThreshold ==
    call.op = "selectShapeWithPointer" =>
        LET hits == {i \in 0 .. (Len(shapes) - 1) :
                        WithinThreshold(At(shapes, i), call.args[1], call.args[2])}
        IN  /\ hits = {} <=> ret.value = -1
            /\ hits # {} => ret.value \in hits /\ \A i \in hits : ret.value <= i

\* the smallest distance from p to a segment of the shape (a shape with points)
Closest(shape, p) ==
    LET ds == {distanceToSegment(p, At(shape, j).vector,
                                 At(shape, (j + 1) % Len(shape)).vector) :
                  j \in 0 .. (Len(shape) - 1)}
    IN  CHOOSE d \in ds : \A e \in ds : ~NumLess(e, d)

C8_Witness ==
    /\ Called("selectShapeWithPointer")
    /\ Len(shapes) = 2
    /\ WithinThreshold(shapes[1], call.args[1], call.args[2])
    /\ WithinThreshold(shapes[2], call.args[1], call.args[2])
    /\ NumLess(Closest(shapes[2], call.args[1]), Closest(shapes[1], call.args[1]))
    /\ ret.value = 0

\* C9: serializeToSVG emits one path element per non-empty shape, in
\* collection order, and none for an empty shape; the first point of the shape
\* gives one M command and each later point, in point order, one L command;
\* the stroke is the color of the shape's first point.
IsPath(e) == e.path
HasPoints(shape) == Len(shape) > 0

C9_OnePathPerNonEmptyShape ==
    call.op = "serializeToSVG" =>
        LET paths == SelectSeq(ret.value.pathElements, IsPath)
            drawn == SelectSeq(shapes, HasPoints)
            all == flat(shapes, Len(shapes))
            maxValue == reduceMax(all, Len(all))
            width == call.args[1]
            height == call.args[2]
        IN  /\ Len(paths) = Len(drawn)
            /\ \A k \in 1 .. Len(drawn) :
                /\ Len(paths[k].d) = Len(drawn[k])
                /\ paths[k].stroke = drawn[k][1].color
                /\ \A m \in 1 .. Len(drawn[k]) :
                    /\ paths[k].d[m].cmd = IF m = 1 THEN "M" ELSE "L"
                    /\ paths[k].d[m].x =
                           toFixed2(NumAdd(scaleCoordinate(drawn[k][m].vector.x,
                                                           maxValue, width, height),
                                           NumDiv(width, Whole(2))))
                    /\ paths[k].d[m].y =
                           toFixed2(NumSub(NumDiv(height, Whole(2)),
                                           scaleCoordinate(drawn[k][m].vector.y,
                                                           maxValue, width, height)))

C9_Witness ==
    /\ Called("serializeToSVG")
    /\ Len(shapes) = 2
    /\ shapes[1] = << >>
    /\ Len(shapes[2]) = 2
    /\ shapes[2][1].vector # shapes[2][2].vector
    /\ shapes[2][1].color # shapes[2][2].color

\* C10: when the collection has a point and every point lies at the world
\* origin, every coordinate serializeToSVG emits is a finite number.
NotANumber == {"NaN", "Infinity", "-Infinity"}

C10_OriginOnlyCoordinatesFinite ==
    LET all == flat(shapes, Len(shapes))
    IN  (/\ call.op = "serializeToSVG"
         /\ Len(all) > 0
         /\ \A n \in 1 .. Len(all) : all[n].vector = createVector(Fin(0), Fin(0))) =>
            \A i \in 1 .. Len(ret.value.pathElements) :
                \A m \in 1 .. Len(ret.value.pathElements[i].d) :
                    /\ ret.value.pathElements[i].d[m].x \notin NotANumber
                    /\ ret.value.pathElements[i].d[m].y \notin NotANumber

\* C11: a store or transform operation that takes a shape index (removeShape,
\* addVector, duplicateShape, scaleShape, translateShape, rotateShape) ends in
\* an error when the index names no shape of the collection (index < 0 or
\* index >= length); it never completes silently.
IndexedOperations ==
    {"removeShape", "addVector", "duplicateShape",
     "scaleShape", "translateShape", "rotateShape"}

C11_InvalidIndexIsAnError ==
    (call.op \in IndexedOperations /\ ~HasIndex(Before, call.args[1])) => ret.threw

Near(a, b) == IsFinite(a) /\ IsFinite(b) /\ AbsInt(a.v - b.v) <= 2
NearVector(u, v) == Near(u.x, v.x) /\ Near(u.y, v.y)

\* the shape a transform call was about, as the call left it
Transformed == At(shapes, call.args[1])

\* C13: for a shape with at least one point and any angle, the centroid
\* recomputed after rotateShape(shapeIndex, angle) equals, within tolerance,
\* the centroid before the rotation.
C13_RotationKeepsCentroid ==
    (call.op = "rotateShape" /\ ~ret.threw /\ Len(Target) >= 1) =>
        NearVector(calculateCenter(Transformed), calculateCenter(Target))

C13_Witness ==
    /\ Called("rotateShape")
    /\ Len(Target) = 2
    /\ calculateCenter(Target) # createVector(Fin(0), Fin(0))
    /\ \A k \in 1 .. 2 : ~NearVector(Transformed[k].vector, Target[k].vector)

\* The last two transform calls were op on the same shape, a shape with a
\* point, the second with the argument that undoes the first.
LastTwo(op, undoes(_, _)) ==
    /\ Len(trail) >= 2
    /\ trail[Len(trail) - 1].op = op
    /\ trail[Len(trail)].op = op
    /\ trail[Len(trail) - 1].args[1] = trail[Len(trail)].args[1]
    /\ undoes(trail[Len(trail) - 1].args[2], trail[Len(trail)].args[2])
    /\ Len(At(shapes, trail[Len(trail)].args[1])) >= 1

\* Every point of the shape of the last two calls is, within tolerance, where
\* it was before the first of them, in the same order.
Restored ==
    LET original == At(trail[Len(trail) - 1].shapes, trail[Len(trail)].args[1])
        now == At(shapes, trail[Len(trail)].args[1])
    IN  /\ Len(now) = Len(original)
        /\ \A k \in 1 .. Len(original) : NearVector(now[k].vector, original[k].vector)

\* The first of the last two calls moved every point of a shape of two points
\* or more.
MovedAway ==
    LET original == At(trail[Len(trail) - 1].shapes, trail[Len(trail)].args[1])
        between == At(trail[Len(trail)].shapes, trail[Len(trail)].args[1])
    IN  /\ Len(original) >= 2
        /\ \A k \in 1 .. Len(original) : ~NearVector(between[k].vector, original[k].vector)

OppositeAngles(t, u) == u = -t

\* C14: for a shape with at least one point and any angle t, rotateShape(i, t)
\* followed by rotateShape(i, -t) restores every point of shape i to its
\* original position (within tolerance), in the original order.
C14_RotateThereAndBack == LastTwo("rotateShape", OppositeAngles) => Restored

C14_Witness == LastTwo("rotateShape", OppositeAngles) /\ MovedAway /\ call.op = "rotateShape"

InverseFactors(k, m) == k # Fin(0) /\ m = NumDiv(Whole(1), k)

\* C15: for a shape with at least one point and a factor k other than 0,
\* scaleShape(i, k) followed by scaleShape(i, 1/k) restores every point of
\* shape i (within tolerance): each call maps a point p to
\* centroid + (p - centroid) * factor and leaves the centroid where it was.
C15_ScaleThereAndBack ==
    /\ LastTwo("scaleShape", InverseFactors) => Restored
    /\ (call.op = "scaleShape" /\ ~ret.threw /\ Len(Target) >= 1) =>
        LET centroid == calculateCenter(Target)
            factor == call.args[2]
        IN  /\ Len(Transformed) = Len(Target)
            /\ NearVector(calculateCenter(Transformed), centroid)
            /\ \A k \in 1 .. Len(Target) :
                /\ Near(Transformed[k].vector.x,
                        NumAdd(centroid.x,
                               NumMul(NumSub(Target[k].vector.x, centroid.x), factor)))
                /\ Near(Transformed[k].vector.y,
                        NumAdd(centroid.y,
                               NumMul(NumSub(Target[k].vector.y, centroid.y), factor)))

C15_Witness ==
    /\ LastTwo("scaleShape", InverseFactors)
    /\ MovedAway
    /\ call.op = "scaleShape"
    /\ call.args[2] = Whole(2)

OppositeVectors(d, e) == e = createVector(NumNeg(d.x), NumNeg(d.y))

\* C16: translateShape(shapeIndex, delta) moves every point of the target
\* shape by exactly delta, component by component, so that translateShape(i, d)
\* followed by translateShape(i, -d) restores the shape.
C16_TranslateByDelta ==
    /\ (call.op = "translateShape" /\ ~ret.threw) =>
        /\ Len(Transformed) = Len(Target)
        /\ \A k \in 1 .. Len(Target) :
            /\ Transformed[k].vector.x = Fin(Target[k].vector.x.v + call.args[2].x.v)
            /\ Transformed[k].vector.y = Fin(Target[k].vector.y.v + call.args[2].y.v)
    /\ LastTwo("translateShape", OppositeVectors) =>
        LET original == At(trail[Len(trail) - 1].shapes, trail[Len(trail)].args[1])
            now == At(shapes, trail[Len(trail)].args[1])
        IN  /\ Len(now) = Len(original)
            /\ \A k \in 1 .. Len(original) : now[k].vector = original[k].vector

C16_Witness ==
    /\ LastTwo("translateShape", OppositeVectors)
    /\ MovedAway
    /\ call.op = "translateShape"
    /\ call.args[2] = createVector(Fin(-50), Whole(-1))

\* C20: scaleShape, translateShape and rotateShape leave the number of shapes,
\* the number and the order of the points of the target shape, every other
\* shape and the selected shape index as they were before the call.
C20_TransformFrame ==
    (call.op \in {"scaleShape", "translateShape", "rotateShape"} /\ ~ret.threw) =>
        /\ Len(shapes) = Len(Before)
        /\ Len(Transformed) = Len(Target)
        /\ \A k \in 1 .. Len(Target) : Transformed[k].color = Target[k].color
        /\ \A j \in 0 .. (Len(Before) - 1) :
            j # call.args[1] => At(shapes, j) = At(Before, j)
        /\ selectedShape = prev.selectedShape

C20_Witness ==
    /\ Called("scaleShape")
    /\ Len(Before) = 2
    /\ call.args[1] = 1
    /\ Len(Target) = 2
    /\ Len(Before[1]) = 1
    /\ Target[1].color # Target[2].color
    /\ Transformed[2].vector # Target[2].vector
    /\ selectedShape = selectShape(0)

C18_NoPointAfterPointerUp ==
    (call.op = "later" /\ ~listening) => shapes = prev.shapes

\* C19: a point that the debounced callback of a freehand drag appends goes
\* to the shape selected at that time, and the append leaves the number of
\* shapes, the points that shape had and every other shape as they were.
C19_FreehandAppendsToSelected ==
    (call.op = "later" /\ shapes # prev.shapes) =>
        /\ prev.selectedShape # null
        /\ HasIndex(prev.shapes, prev.selectedShape[1])
        /\ Len(shapes) = Len(prev.shapes)
        /\ \A j \in 1 .. Len(shapes) :
            IF j - 1 = prev.selectedShape[1]
            THEN /\ Len(shapes[j]) = Len(prev.shapes[j]) + 1
                 /\ SubSeq(shapes[j], 1, Len(prev.shapes[j])) = prev.shapes[j]
            ELSE shapes[j] = prev.shapes[j]

\* C21: scaleShape or rotateShape on a shape of the collection that has no
\* points throws or changes nothing: the collection is as it was before the
\* call, the shape is still empty, and every coordinate stored is a finite
\* number.
C21_EmptyShapeTransform ==
    (/\ call.op \in {"scaleShape", "rotateShape"}
     /\ HasIndex(Before, call.args[1])
     /\ Len(Target) = 0) =>
        \/ ret.threw /\ shapes = Before
        \/ /\ shapes = Before
           /\ Transformed = << >>
           /\ \A i \in 1 .. Len(shapes) : \A j \in 1 .. Len(shapes[i]) :
                IsFinite(shapes[i][j].vector.x) /\ IsFinite(shapes[i][j].vector.y)

\* an empty second shape has been scaled and is then rotated, next to a
\* first shape that has points
C21_Witness ==
    /\ Called("rotateShape")
    /\ Len(Before) = 2
    /\ call.args[1] = 1
    /\ Len(Target) = 0
    /\ Len(Before[1]) = 2
    /\ Len(trail) = 2
    /\ trail[1].op = "scaleShape"
    /\ trail[1].args[1] = 1
    /\ trail[1].shapes = Before

\* the index the hit test gave for the pointer-down of the call
HitIndex == selectShapeWithPointer(Before, EventVector(call.args), Fin(10))

\* C22: in select-shape mode a pointer-down on the canvas leaves the shapes
\* as they were; when the hit test gives an index other than -1 the selection
\* is that index, and when it gives -1 the selection is the one before.
C22_SelectModePointerDown ==
    (call.op = "handleCanvasInteraction" /\ mode = "selectShape") =>
        /\ ~ret.threw
        /\ ret.value = HitIndex
        /\ shapes = Before
        /\ HitIndex # -1 => selectedShape = selectShape(HitIndex)
        /\ HitIndex = -1 => selectedShape = prev.selectedShape

\* the second shape was selected, and the pointer goes down on a point of
\* the first
C22_Witness ==
    /\ Called("handleCanvasInteraction")
    /\ mode = "selectShape"
    /\ Len(shapes) = 2
    /\ prev.selectedShape = selectShape(1)
    /\ HitIndex = 0
    /\ selectedShape = selectShape(0)

\* C23: after any presses of the zoom-in, zoom-out and clear buttons the zoom
\* factor is greater than 0, and a point that a pointer-down on the canvas
\* stores has finite coordinates, as transformPixelToVector divides by a
\* factor that is not 0.
C23_ZoomPositive ==
    /\ zoom > 0
    /\ (call.op \in {"handleAddVector", "handleCanvasInteraction"} /\ mode = "point") =>
        \A i \in 1 .. Len(shapes) : \A j \in 1 .. Len(shapes[i]) :
            IsFinite(shapes[i][j].vector.x) /\ IsFinite(shapes[i][j].vector.y)

\* the largest absolute coordinate of the collection exported
MaxValue == LET all == flat(shapes, Len(shapes)) IN reduceMax(all, Len(all))

\* the number of which toFixed(2) gave the string emitted, when it is the
\* number n: toFixed(2) gives different strings for different numbers of the
\* model's resolution
Emits(string, n) == IsFinite(n) /\ string = toFixed2(n)

\* where the export puts a point of the collection on each axis
ExportX(p) ==
    NumAdd(scaleCoordinate(p.vector.x, MaxValue, call.args[1], call.args[2]),
           NumDiv(call.args[1], Whole(2)))

ExportY(p) ==
    NumSub(NumDiv(call.args[2], Whole(2)),
           scaleCoordinate(p.vector.y, MaxValue, call.args[1], call.args[2]))

HalfExtent ==
    NumDiv(IF NumLess(call.args[1], call.args[2]) THEN call.args[1] ELSE call.args[2],
           Whole(2))

\* every pair emitted is inside the export area, and a coordinate of the
\* largest absolute value is half the smaller side away from the centre
InsideExportArea ==
    LET width == call.args[1]
        height == call.args[2]
    IN  \A i \in 1 .. Len(shapes) : \A m \in 1 .. Len(shapes[i]) :
            LET p == shapes[i][m]
                e == ret.value.pathElements[i].d[m]
                x == ExportX(p)
                y == ExportY(p)
            IN  /\ Emits(e.x, x) /\ 0 <= x.v /\ x.v <= width.v
                /\ Emits(e.y, y) /\ 0 <= y.v /\ y.v <= height.v
                /\ NumAbs(p.vector.x) = MaxValue =>
                        AbsInt(x.v - NumDiv(width, Whole(2)).v) = HalfExtent.v
                /\ NumAbs(p.vector.y) = MaxValue =>
                        AbsInt(y.v - NumDiv(height, Whole(2)).v) = HalfExtent.v

AllFinite ==
    \A i \in 1 .. Len(shapes) : \A m \in 1 .. Len(shapes[i]) :
        IsFinite(shapes[i][m].vector.x) /\ IsFinite(shapes[i][m].vector.y)

====
